---- MODULE Spec2Model ----
(***************************************************************************)
(* Model of tools/refactor_errors.py: refactor_file rewrites every         *)
(* AppError::<old_variant>(arg) of a file into                             *)
(* AppError::<new_variant> { <field_name>: arg }.  Text is a sequence of   *)
(* one-character strings; indices are the 0-based indices of the Python    *)
(* code, so character i of buf is buf[i + 1].                              *)
(***************************************************************************)
EXTENDS Integers, Sequences, FiniteSets, TLC

VARIABLES
    file,         \* the text stored at filepath
    content,      \* line 6: what this run read from the file
    new_content,  \* line 24: the buffer being rewritten
    inserted,     \* history: inserted[i] is the rule whose splice, in this run, wrote
                  \* new_content[i], and 0 for a character read from the file
    rule,         \* index into transformations of the for loop at line 26 (5: loop over)
    pc,           \* "search" (line 31), "matched" (35), "scanned" (46), "finish" (63), "done"
    match,        \* line 31: None or [start, end] of the regex match
    start_idx,    \* line 35
    idx,          \* line 38
    open_parens,  \* line 37
    out,          \* the lines printed by this run
    writes,       \* number of times the file was written (line 66)
    run           \* which invocation of the script on the file this is

vars == <<file, content, new_content, inserted, rule, pc, match, start_idx, idx,
          open_parens, out, writes, run>>

----------------------------------------------------------------------------
(* Bounds of the model *)

\* an input file is the concatenation of at most MaxChunks chunks
MaxChunks == 4
\* the script is run at most MaxRuns times on the same file
MaxRuns == 2
\* a buffer handed to the delimiter scan alone has at most MaxScanLen characters
MaxScanLen == 6

----------------------------------------------------------------------------
(* Text *)

None == [none |-> TRUE]

AppErrorPrefix == <<"A", "p", "p", "E", "r", "r", "o", "r", ":", ":">>

Validation == <<"V", "a", "l", "i", "d", "a", "t", "i", "o", "n">>
InternalError == <<"I", "n", "t", "e", "r", "n", "a", "l", "E", "r", "r", "o", "r">>
AssetError == <<"A", "s", "s", "e", "t", "E", "r", "r", "o", "r">>
MalformedEnvToml == <<"M", "a", "l", "f", "o", "r", "m", "e", "d", "E", "n", "v", "T", "o", "m", "l">>
Internal == <<"I", "n", "t", "e", "r", "n", "a", "l">>
Asset == <<"A", "s", "s", "e", "t">>
EnvTomlError == <<"E", "n", "v", "T", "o", "m", "l", "E", "r", "r", "o", "r">>
reason == <<"r", "e", "a", "s", "o", "n">>
message == <<"m", "e", "s", "s", "a", "g", "e">>

\* lines 17-22
transformations ==
    << [old_variant |-> Validation,       new_variant |-> Validation,   field_name |-> reason],
       [old_variant |-> InternalError,    new_variant |-> Internal,     field_name |-> message],
       [old_variant |-> AssetError,       new_variant |-> Asset,        field_name |-> message],
       [old_variant |-> MalformedEnvToml, new_variant |-> EnvTomlError, field_name |-> message] >>

NumRules == Len(transformations)

filepath == "src/app.rs"

\* buf[a:b] of Python, for 0 <= a and b <= len(buf)
Slice(buf, a, b) == SubSeq(buf, a + 1, b)

\* the characters \s of the regex matches
IsSpace(c) == c \in {" ", "\t", "\n", "\r"}

\* the greedy \s* of the pattern: the first index >= i that holds no whitespace
RECURSIVE SkipSpace(_, _)
SkipSpace(buf, i) ==
    IF i < Len(buf) /\ IsSpace(buf[i + 1]) THEN SkipSpace(buf, i + 1) ELSE i

\* line 28: the literal part (group 1) of the pattern of rule r
PatternLiteral(r) == AppErrorPrefix \o transformations[r].old_variant

\* where a match of rule r's pattern that starts at index i ends, or -1:
\* the literal, then \s*, then an opening parenthesis
MatchEndAt(buf, r, i) ==
    LET lit == PatternLiteral(r)
        e == i + Len(lit)
    IN IF e <= Len(buf) /\ buf[i + 1] = lit[1] /\ Slice(buf, i, e) = lit
       THEN LET j == SkipSpace(buf, e)
            IN IF j < Len(buf) /\ buf[j + 1] = "(" THEN j + 1 ELSE -1
       ELSE -1

\* pattern.search(buf, i): the leftmost match at or after index i
RECURSIVE SearchFrom(_, _, _)
SearchFrom(buf, r, i) ==
    IF i >= Len(buf) THEN None
    ELSE LET e == MatchEndAt(buf, r, i)
         IN IF e # -1 THEN [start |-> i, end |-> e] ELSE SearchFrom(buf, r, i + 1)

\* the search taken from the second character on
SearchSkipFirst(buf, r) == SearchFrom(buf, r, 1)

\* the rightmost match instead of the leftmost
SearchLast(buf, r) ==
    LET starts == { i \in 0..(Len(buf) - 1) : MatchEndAt(buf, r, i) # -1 }
    IN IF starts = {} THEN None
       ELSE LET i == CHOOSE k \in starts : \A l \in starts : l <= k
            IN [start |-> i, end |-> MatchEndAt(buf, r, i)]

\* line 31: pattern.search(new_content)
Search(buf, r) == SearchFrom(buf, r, 0)

\* lines 39-44: one iteration of the scan per call, until the loop condition fails
RECURSIVE ScanLoop(_, _, _)
ScanLoop(buf, i, open) ==
    IF i < Len(buf) /\ open > 0
    THEN ScanLoop(buf, i + 1,
                  IF buf[i + 1] = "(" THEN open + 1
                  ELSE IF buf[i + 1] = ")" THEN open - 1
                  ELSE open)
    ELSE [idx |-> i, open_parens |-> open]

\* the scan that does not count the opening parentheses
RECURSIVE ScanLoopFlat(_, _, _)
ScanLoopFlat(buf, i, open) ==
    IF i < Len(buf) /\ open > 0
    THEN ScanLoopFlat(buf, i + 1, IF buf[i + 1] = ")" THEN open - 1 ELSE open)
    ELSE [idx |-> i, open_parens |-> open]

FindCloseFirst(buf, start) == ScanLoopFlat(buf, start, 1)

\* lines 37-44: the scan started at start with open_parens = 1
FindClose(buf, start) == ScanLoop(buf, start, 1)

\* the replacement that keeps the call syntax
ReplacementCall(new_variant, field_name, arg) ==
    AppErrorPrefix \o new_variant \o <<"(">> \o arg \o <<")">>

\* line 52
Replacement(new_variant, field_name, arg) ==
    AppErrorPrefix \o new_variant \o <<" ", "{", " ">> \o field_name \o <<":", " ">>
        \o arg \o <<" ", "}">>

\* the splice that takes the rest of the buffer from the closing parenthesis on
SpliceTextKeepClose(buf, from, to, replacement) ==
    Slice(buf, 0, from) \o replacement \o Slice(buf, to - 1, Len(buf))

\* line 58
SpliceText(buf, from, to, replacement) ==
    Slice(buf, 0, from) \o replacement \o Slice(buf, to, Len(buf))

\* line 60
ErrorMessage == <<"Error: Could not find matching parenthesis in ", filepath>>

\* line 64
UpdatingMessage == <<"Updating ", filepath>>

Flags(n, b) == [i \in 1..n |-> b]

----------------------------------------------------------------------------
(* Inputs *)

\* the pieces input files are made of: a bare token, two opened calls, and
\* single characters
Chunks ==
    { AppErrorPrefix \o Validation,
      AppErrorPrefix \o InternalError \o <<"(">>,
      AppErrorPrefix \o AssetError \o <<"(">>,
      <<"(">>, <<")">>, <<" ">>, <<"1">> }

RECURSIVE Flatten(_)
Flatten(cs) == IF cs = <<>> THEN <<>> ELSE Head(cs) \o Flatten(Tail(cs))

\* AppError::InternalError(AppError::InternalError(1))
NestedExample ==
    Flatten(<< AppErrorPrefix, InternalError, <<"(">>, AppErrorPrefix, InternalError,
               <<"(", "1", ")", ")">> >>)

\* AppError::Validation(1)
ValidationExample == Flatten(<< AppErrorPrefix, Validation, <<"(", "1", ")">> >>)

\* a call of the first rule nested in another after whitespace; a call with text
\* before and after it and parentheses in its argument; and
\* inputs of the fourth rule: a call, a call after whitespace, an unclosed call, a
\* call nested in a call of the first rule, and a call inside an unclosed call of
\* the second rule
ExampleInputs ==
    { NestedExample,
      ValidationExample,
      Flatten(<< AppErrorPrefix, Validation, <<"(">>, AppErrorPrefix, Validation,
                 <<" ", "(", "1", ")", ")">> >>),
      Flatten(<< <<"1", " ">>, AppErrorPrefix, AssetError,
                 <<"(", "(", "1", ")", ")", "\n", "1">> >>),
      Flatten(<< AppErrorPrefix, MalformedEnvToml, <<"(", "1", ")">> >>),
      Flatten(<< AppErrorPrefix, MalformedEnvToml, <<" ", "\n", "(", "(", "1", ")", ")">> >>),
      Flatten(<< AppErrorPrefix, MalformedEnvToml, <<"(", "1">> >>),
      Flatten(<< AppErrorPrefix, Validation, <<"(">>, AppErrorPrefix, MalformedEnvToml,
                 <<"(", "1", ")", ")">> >>),
      Flatten(<< AppErrorPrefix, InternalError, <<"(">>, AppErrorPrefix, MalformedEnvToml,
                 <<"(", "1", ")">> >>) }

Inputs ==
    { Flatten(cs) : cs \in UNION { [1..n -> Chunks] : n \in 0..MaxChunks } }
        \cup ExampleInputs

ScanChars == {"(", ")", "a"}

ScanInputs ==
    UNION { [1..n -> ScanChars] : n \in 1..MaxScanLen }
        \cup { <<"(", "a", "(", "b", ")", "c", ")">> }

----------------------------------------------------------------------------
(* refactor_file *)

Init ==
    /\ file \in Inputs
    /\ content = file
    /\ new_content = file
    /\ inserted = Flags(Len(file), 0)
    /\ rule = 1
    /\ pc = "search"
    /\ match = None
    /\ start_idx = 0
    /\ idx = 0
    /\ open_parens = 0
    /\ out = <<>>
    /\ writes = 0
    /\ run = 1

\* the for loop at line 26 moves to its next rule, or ends
NextRule ==
    /\ rule' = rule + 1
    /\ pc' = IF rule = NumRules THEN "finish" ELSE "search"

\* lines 31-32: the search finds an occurrence
SearchMatch ==
    /\ pc = "search"
    /\ LET m == Search(new_content, rule)
       IN m # None /\ match' = m
    /\ pc' = "matched"
    /\ UNCHANGED <<file, content, new_content, inserted, rule, start_idx, idx,
                   open_parens, out, writes, run>>

\* lines 31-33: the search finds nothing, break
SearchNone ==
    /\ pc = "search"
    /\ Search(new_content, rule) = None
    /\ match' = None
    /\ NextRule
    /\ UNCHANGED <<file, content, new_content, inserted, start_idx, idx, open_parens,
                   out, writes, run>>

\* lines 35-44
Scan ==
    /\ pc = "matched"
    /\ start_idx' = match.end
    /\ LET found == FindClose(new_content, match.end)
       IN idx' = found.idx /\ open_parens' = found.open_parens
    /\ pc' = "scanned"
    /\ UNCHANGED <<file, content, new_content, inserted, rule, match, out, writes, run>>

\* the splice followed by a break: one splice per rule
SpliceBreak ==
    /\ pc = "scanned"
    /\ open_parens = 0
    /\ LET arg == Slice(new_content, start_idx, idx - 1)
           t == transformations[rule]
           replacement == Replacement(t.new_variant, t.field_name, arg)
           head == Len(replacement) - Len(arg) - 2
           mark == Flags(head, rule) \o Slice(inserted, start_idx, idx - 1)
                       \o Flags(2, rule)
       IN /\ new_content' = SpliceText(new_content, match.start, idx, replacement)
          /\ inserted' = SpliceText(inserted, match.start, idx, mark)
    /\ NextRule
    /\ UNCHANGED <<file, content, match, start_idx, idx, open_parens, out, writes, run>>

\* the splice that keeps the buffer up to match.end() instead of match.start()
SpliceFromEnd ==
    /\ pc = "scanned"
    /\ open_parens = 0
    /\ LET arg == Slice(new_content, start_idx, idx - 1)
           t == transformations[rule]
           replacement == Replacement(t.new_variant, t.field_name, arg)
           head == Len(replacement) - Len(arg) - 2
           mark == Flags(head, rule) \o Slice(inserted, start_idx, idx - 1)
                       \o Flags(2, rule)
       IN /\ new_content' = SpliceText(new_content, match.end, idx, replacement)
          /\ inserted' = SpliceText(inserted, match.end, idx, mark)
    /\ pc' = "search"
    /\ UNCHANGED <<file, content, rule, match, start_idx, idx, open_parens, out,
                   writes, run>>

\* lines 46-58
Splice ==
    /\ pc = "scanned"
    /\ open_parens = 0
    /\ LET arg == Slice(new_content, start_idx, idx - 1)
           t == transformations[rule]
           replacement == Replacement(t.new_variant, t.field_name, arg)
           head == Len(replacement) - Len(arg) - 2
           mark == Flags(head, rule) \o Slice(inserted, start_idx, idx - 1)
                       \o Flags(2, rule)
       IN /\ new_content' = SpliceText(new_content, match.start, idx, replacement)
          /\ inserted' = SpliceText(inserted, match.start, idx, mark)
    /\ pc' = "search"
    /\ UNCHANGED <<file, content, rule, match, start_idx, idx, open_parens, out,
                   writes, run>>

\* the failure that returns from refactor_file instead of breaking out of the loop
FailReturn ==
    /\ pc = "scanned"
    /\ open_parens # 0
    /\ out' = Append(out, ErrorMessage)
    /\ pc' = "finish"
    /\ UNCHANGED <<file, content, new_content, inserted, rule, match, start_idx, idx,
                   open_parens, writes, run>>

\* lines 59-61
Fail ==
    /\ pc = "scanned"
    /\ open_parens # 0
    /\ out' = Append(out, ErrorMessage)
    /\ NextRule
    /\ UNCHANGED <<file, content, new_content, inserted, match, start_idx, idx,
                   open_parens, writes, run>>

\* the end of the run without the comparison of line 63
FinishAlways ==
    /\ pc = "finish"
    /\ out' = Append(out, UpdatingMessage)
    /\ file' = new_content
    /\ writes' = writes + 1
    /\ pc' = "done"
    /\ UNCHANGED <<content, new_content, inserted, rule, match, start_idx, idx,
                   open_parens, run>>

\* lines 63-66
Finish ==
    /\ pc = "finish"
    /\ out' = IF new_content # content THEN Append(out, UpdatingMessage) ELSE out
    /\ file' = IF new_content # content THEN new_content ELSE file
    /\ writes' = IF new_content # content THEN writes + 1 ELSE writes
    /\ pc' = "done"
    /\ UNCHANGED <<content, new_content, inserted, rule, match, start_idx, idx,
                   open_parens, run>>

\* lines 68-72, 4-6, 24: the script is run again and reads the file
Rerun ==
    /\ pc = "done"
    /\ run < MaxRuns
    /\ run' = run + 1
    /\ content' = file
    /\ new_content' = file
    /\ inserted' = Flags(Len(file), 0)
    /\ rule' = 1
    /\ pc' = "search"
    /\ match' = None
    /\ out' = <<>>
    /\ UNCHANGED <<file, start_idx, idx, open_parens, writes>>

Next == SearchMatch \/ SearchNone \/ Scan \/ Splice \/ Fail \/ Finish \/ Rerun

Spec == Init /\ [][Next]_vars

----------------------------------------------------------------------------
(* The delimiter scan alone: any buffer, any start just past a "(" *)

InitScan ==
    /\ new_content \in ScanInputs
    /\ \E s \in 1..Len(new_content) :
          /\ new_content[s] = "("
          /\ match = [start |-> s - 1, end |-> s]
    /\ file = new_content
    /\ content = new_content
    /\ inserted = Flags(Len(new_content), 0)
    /\ rule = 1
    /\ pc = "matched"
    /\ start_idx = 0
    /\ idx = 0
    /\ open_parens = 0
    /\ out = <<>>
    /\ writes = 0
    /\ run = 1

NextScan == Scan

SpecScan == InitScan /\ [][NextScan]_vars

----------------------------------------------------------------------------
(* Vocabulary of the properties, stated without the scan and search loops *)

\* the indices at which a match of rule r's pattern starts
Occurrences(buf, r) == { i \in 0..(Len(buf) - 1) : MatchEndAt(buf, r, i) # -1 }

Rules == 1..NumRules

\* the open-count after the characters s..j, counted from 1 just before s
Depth(buf, s, j) ==
    1 + Cardinality({ k \in s..j : buf[k + 1] = "(" })
      - Cardinality({ k \in s..j : buf[k + 1] = ")" })

\* the indices of the closing parentheses at which the count started at s is 0
ClosesAt(buf, s) == { j \in s..(Len(buf) - 1) : Depth(buf, s, j) = 0 }

\* the first of them: the parenthesis that matches the one just before s
MatchingClose(buf, s) == CHOOSE j \in ClosesAt(buf, s) : \A k \in ClosesAt(buf, s) : j <= k

\* the number of splices this run has made: each writes one opening brace
SplicesDone == Cardinality({ i \in 1..Len(new_content) : inserted[i] # 0 /\ new_content[i] = "{" })

\* the step that takes the branch of line 46, and the step that takes line 59
SpliceStep == pc = "scanned" /\ open_parens = 0
FailStep == pc = "scanned" /\ open_parens # 0

\* "(a(b)c)"
BalanceExample == <<"(", "a", "(", "b", ")", "c", ")">>

\* AppError::Internal { message: AppError::InternalError(1) }
OuterOnly ==
    Flatten(<< AppErrorPrefix, Internal, <<" ", "{", " ">>, message, <<":", " ">>,
               AppErrorPrefix, InternalError, <<"(", "1", ")", " ", "}">> >>)

\* AppError::Internal { message: AppError::Internal { message: 1 } }
BothRewritten ==
    Flatten(<< AppErrorPrefix, Internal, <<" ", "{", " ">>, message, <<":", " ">>,
               AppErrorPrefix, Internal, <<" ", "{", " ">>, message,
               <<":", " ", "1", " ", "}", " ", "}">> >>)

\* AppError::Validation { reason: 1 }
ValidationRewritten ==
    Flatten(<< AppErrorPrefix, Validation, <<" ", "{", " ">>, reason,
               <<":", " ", "1", " ", "}">> >>)

----------------------------------------------------------------------------
(* Properties *)

\* C1: from a start just past an opening parenthesis the scan ends just past the
\* first closing parenthesis at which the count, started at 1, reaches 0, whatever
\* the nesting in between; without such a parenthesis it ends at the end of the
\* buffer with the count above 0; on "(a(b)c)" from index 1 it ends at 7.
BalanceCorrect ==
    pc = "scanned" =>
        /\ ClosesAt(new_content, start_idx) # {} =>
              open_parens = 0 /\ idx = MatchingClose(new_content, start_idx) + 1
        /\ ClosesAt(new_content, start_idx) = {} =>
              open_parens > 0 /\ idx = Len(new_content)
        /\ (new_content = BalanceExample /\ start_idx = 1) => idx = 7

BalanceWitness ==
    pc = "scanned" /\ new_content = BalanceExample /\ start_idx = 1 /\ idx = 7

\* C2: a splice keeps the text before the matched AppError::<old_variant> token and
\* the text after the matching closing parenthesis, and puts between them exactly
\* AppError::<new_variant> { <field_name>: <arg> }, arg being the text strictly
\* between the opening parenthesis and its matching closing parenthesis.
SplicePreserves ==
    [][SpliceStep =>
          LET s == match.start
              close == MatchingClose(new_content, match.end)
              arg == Slice(new_content, match.end, close)
              t == transformations[rule]
              text == AppErrorPrefix \o t.new_variant \o <<" ", "{", " ">>
                          \o t.field_name \o <<":", " ">> \o arg \o <<" ", "}">>
          IN /\ Slice(new_content, s, s + Len(PatternLiteral(rule))) = PatternLiteral(rule)
             /\ new_content[match.end] = "("
             /\ Slice(new_content', 0, s) = Slice(new_content, 0, s)
             /\ Slice(new_content', s, s + Len(text)) = text
             /\ Slice(new_content', s + Len(text), Len(new_content'))
                    = Slice(new_content, close + 1, Len(new_content))]_vars

\* a splice has been made in the middle of the text, around a non-empty argument
SpliceWitness ==
    /\ pc = "search"
    /\ SplicesDone = 1
    /\ inserted[1] = 0
    /\ inserted[Len(inserted)] = 0
    /\ \E i, j, k \in 1..Len(inserted) :
          i < j /\ j < k /\ inserted[i] # 0 /\ inserted[j] = 0 /\ inserted[k] # 0

\* C3: a second run of the full rule list on the result of a first run changes
\* nothing, also when a rule failed on unbalanced parentheses and when the rule
\* Validation -> Validation fired.
Idempotent ==
    (run > 1 /\ pc = "done") =>
        /\ new_content = content
        /\ file = content
        /\ \A i \in 1..Len(out) : out[i] = ErrorMessage

\* the second run is over, on a file the first run rewrote with the Validation rule
\* and in which a rule fails
IdempotentWitness ==
    /\ run = 2
    /\ pc = "done"
    /\ writes = 1
    /\ Len(out) > 0
    /\ \E i \in 0..(Len(content) - Len(ValidationRewritten)) :
          Slice(content, i, i + Len(PatternLiteral(1)) + 2)
              = PatternLiteral(1) \o <<" ", "{">>

\* C4 as stated: the rule InternalError -> Internal applied to
\* AppError::InternalError(AppError::InternalError(1)) leaves
\* AppError::Internal { message: AppError::InternalError(1) }.
NestedPassthroughClaim ==
    (run = 1 /\ content = NestedExample /\ rule > 2) => new_content = OuterOnly

\* C4 amended: the first splice of the rule yields
\* AppError::Internal { message: AppError::InternalError(1) }, the inner occurrence
\* untouched by that splice; the loop of the same rule then rewrites the inner
\* occurrence too, and the rule ends with
\* AppError::Internal { message: AppError::Internal { message: 1 } }.
NestedPassthrough ==
    (run = 1 /\ content = NestedExample) =>
        /\ SplicesDone = 0 => new_content = NestedExample
        /\ SplicesDone = 1 => new_content = OuterOnly /\ rule = 2
        /\ rule > 2 => new_content = BothRewritten /\ SplicesDone = 2

NestedWitness ==
    run = 1 /\ content = NestedExample /\ new_content = OuterOnly /\ pc = "search"

\* C5 as stated: when the scan fails, the buffer is what it was when the rule
\* started, the rule stops, and the next rule is applied.
FailureLeavesRuleUnmodified ==
    [][FailStep =>
          /\ new_content' = new_content
          /\ \A i \in 1..Len(inserted) : inserted[i] # rule
          /\ rule' = rule + 1
          /\ pc' = IF rule = NumRules THEN "finish" ELSE "search"]_vars

\* C5 amended: when the scan fails, the failing iteration leaves the buffer as it
\* was when the occurrence was located (what the rule spliced before is kept), the
\* rule stops, one diagnostic is printed, and the for loop goes on with the next
\* rule, or ends after the last.
FailureIsLocal ==
    [][FailStep =>
          /\ new_content' = new_content
          /\ file' = file
          /\ out' = Append(out, ErrorMessage)
          /\ rule' = rule + 1
          /\ pc' = IF rule = NumRules THEN "finish" ELSE "search"]_vars

\* a rule that had spliced has failed, and the next rule is being searched
FailureWitness ==
    /\ pc = "search"
    /\ rule > 1
    /\ Len(out) > 0
    /\ Occurrences(new_content, rule - 1) # {}
    /\ \E i \in 1..Len(inserted) : inserted[i] = rule - 1

\* C6 as stated: once the loop of a rule is over, no occurrence of its pattern
\* that has a matching closing parenthesis is left in the buffer.
NoBalancedOccurrenceLeft ==
    \A r \in Rules :
        r < rule =>
            \A i \in Occurrences(new_content, r) :
                ClosesAt(new_content, MatchEndAt(new_content, r, i)) = {}

\* C6 amended: when the loop of a rule ends because the search finds nothing,
\* no occurrence of its pattern is left in the buffer, and a pattern without
\* occurrences gets none during the rest of the run.
NoOccurrenceLeft ==
    [][/\ (pc = "search" /\ rule' = rule + 1) => Occurrences(new_content, rule) = {}
       /\ (run' = run /\ new_content' # new_content) =>
             \A r \in Rules :
                 Occurrences(new_content, r) = {} => Occurrences(new_content', r) = {}]_vars

\* a rule that spliced twice has ended by finding nothing more
NoOccurrenceWitness ==
    /\ pc = "search"
    /\ rule > 1
    /\ out = <<>>
    /\ Cardinality({ i \in 1..Len(inserted) :
                        inserted[i] = rule - 1 /\ new_content[i] = "{" }) >= 2

\* C7: within a run the rules are taken once each, in list order, and no search
\* matches text a splice of the run has written, not even the head
\* AppError::Validation of the rule whose head is its own trigger:
\* AppError::Validation(1) ends as AppError::Validation { reason: 1 }.
NoRefire ==
    [][/\ run' = run => rule' \in {rule, rule + 1}
       /\ pc' = "matched" =>
             \A i \in (match'.start + 1)..(match'.end) : inserted'[i] = 0
       /\ (pc' = "done" /\ content' = ValidationExample) =>
             new_content' = ValidationRewritten]_vars

\* a search has matched in a buffer that holds the head AppError::Validation
\* written by a splice
NoRefireWitness ==
    /\ pc = "matched"
    /\ \E i \in 0..(Len(new_content) - Len(PatternLiteral(1))) :
          /\ inserted[i + 1] = 1
          /\ Slice(new_content, i, i + Len(PatternLiteral(1))) = PatternLiteral(1)

\* C8: a run on a file without any occurrence of any rule's pattern ends with the
\* buffer equal to what was read, prints nothing and does not write the file.
Preservation ==
    (pc = "done" /\ \A r \in Rules : Occurrences(content, r) = {}) =>
        /\ new_content = content
        /\ file = content
        /\ out = <<>>
        /\ writes <= run - 1

\* the first run is over on a file that holds a trigger token but no occurrence
PreservationWitness ==
    /\ pc = "done"
    /\ run = 1
    /\ writes = 0
    /\ \A r \in Rules : Occurrences(content, r) = {}
    /\ \E i \in 0..(Len(content) - Len(PatternLiteral(1))) :
          Slice(content, i, i + Len(PatternLiteral(1))) = PatternLiteral(1)

\* C9 as stated: each diagnostic of a failed scan identifies the file, the rule and
\* the offset of the occurrence; the failures of a run are failures of different
\* rules, so their diagnostics differ.
DiagnosticsIdentify ==
    \A i, j \in 1..Len(out) :
        (i # j /\ out[i][1] = ErrorMessage[1] /\ out[j][1] = ErrorMessage[1]) =>
            out[i] # out[j]

\* C10: a splice leaves strictly fewer occurrences of the rule's pattern than
\* there were, and creates no occurrence of another rule's pattern; a failed scan
\* leaves the loop of the rule at once.
SpliceDecreases ==
    [][/\ SpliceStep =>
             /\ Cardinality(Occurrences(new_content', rule))
                    < Cardinality(Occurrences(new_content, rule))
             /\ \A r \in Rules :
                    Cardinality(Occurrences(new_content', r))
                        <= Cardinality(Occurrences(new_content, r))
             /\ pc' = "search" /\ rule' = rule
       /\ FailStep => rule' = rule + 1]_vars

\* the loop of the Validation rule has spliced twice and is searching again
DecreaseWitness ==
    /\ pc = "search"
    /\ rule = 1
    /\ SplicesDone >= 2

====
